---- MODULE Spec2Model ----
(***************************************************************************)
(* The two browser scripts of hello-ai: deepseek/script.js and             *)
(* coze/script.js.  Each script registers one async click handler that     *)
(* writes a placeholder into #reply, issues one fetch, awaits the          *)
(* response, awaits response.json(), reads the reply out of the decoded    *)
(* body and assigns it to replyElement.textContent; a catch block renders  *)
(* any thrown error.  A behaviour is one page (one script in one           *)
(* document) with its clicks and the settlements of its promises.          *)
(***************************************************************************)
EXTENDS Integers, Sequences, FiniteSets, TLC

VARIABLES page, replyText, clicks, network, reqs, lastResolved, unhandled,
          overlapped

vars == <<page, replyText, clicks, network, reqs, lastResolved, unhandled,
          overlapped>>

\* Number of clicks explored in one behaviour.
MaxClicks == 2

(***************************************************************************)
(* JavaScript values, as far as a decoded JSON body can hold them.         *)
(***************************************************************************)
Undefined == [t |-> "undefined"]
Null == [t |-> "null"]
Str(s) == [t |-> "string", s |-> s]
Num(n) == [t |-> "number", n |-> n]
Bool(b) == [t |-> "boolean", b |-> b]
Arr(items) == [t |-> "array", items |-> items]
Obj(props) == [t |-> "object", props |-> props]
NoProps == [k \in {} |-> Undefined]

Normal(v) == [ok |-> TRUE, v |-> v]
Throw(name, message) == [ok |-> FALSE, e |-> [name |-> name, message |-> message]]

\* The message V8 gives a property read on undefined or null.
CannotRead(v, key) ==
    "Cannot read properties of " \o v.t \o " (reading '" \o key \o "')"

\* v.name  (member access with an identifier)
GetMember(v, name) ==
    CASE v.t \in {"undefined", "null"} -> Throw("TypeError", CannotRead(v, name))
      [] v.t = "object" ->
            Normal(IF name \in DOMAIN v.props THEN v.props[name] ELSE Undefined)
      [] v.t = "array" ->
            Normal(IF name = "length" THEN Num(Len(v.items)) ELSE Undefined)
      [] v.t = "string" ->
            Normal(IF name = "length" THEN Num(Len(v.s)) ELSE Undefined)
      [] OTHER -> Normal(Undefined)

\* v[i]  (element access with a non-negative integer literal)
GetIndex(v, i) ==
    CASE v.t \in {"undefined", "null"} ->
            Throw("TypeError", CannotRead(v, ToString(i)))
      [] v.t = "object" ->
            Normal(IF ToString(i) \in DOMAIN v.props THEN v.props[ToString(i)]
                                                   ELSE Undefined)
      [] v.t = "array" ->
            Normal(IF i + 1 \in DOMAIN v.items THEN v.items[i + 1] ELSE Undefined)
      [] v.t = "string" ->
            Normal(IF i + 1 <= Len(v.s) THEN Str(SubSeq(v.s, i + 1, i + 1))
                                        ELSE Undefined)
      [] OTHER -> Normal(Undefined)

\* ToString of a JavaScript value (used by the DOMString conversion).
RECURSIVE JsToString(_)
RECURSIVE JoinItems(_)
JoinItems(items) ==
    IF items = <<>> THEN ""
    ELSE LET h == Head(items)
             hs == IF h.t \in {"undefined", "null"} THEN "" ELSE JsToString(h)
         IN  IF Len(items) = 1 THEN hs ELSE hs \o "," \o JoinItems(Tail(items))
JsToString(v) ==
    CASE v.t = "undefined" -> "undefined"
      [] v.t = "null" -> "null"
      [] v.t = "string" -> v.s
      [] v.t = "number" -> ToString(v.n)
      [] v.t = "boolean" -> IF v.b THEN "true" ELSE "false"
      [] v.t = "array" -> JoinItems(v.items)
      [] v.t = "object" -> "[object Object]"


(***************************************************************************)
(* The page's constants.  SANY reads ASCII only: the non-ASCII characters  *)
(* of the sources are written as their JavaScript escapes.                 *)
(***************************************************************************)
DeepseekEndpoint == "https://api.deepseek.com/chat/completions"
CozeEndpoint == "https://api.coze.cn/open_api/v2/chat"

LoadingTextCapital == "Thinking..."

\* replyElement.textContent = 'thinking...'
LoadingText == "thinking..."

\* The literal of the catch block.
ErrorPrefix == "\\u8BF7\\u6C42\\u51FA\\u9519: "

(***************************************************************************)
(* What the transport can answer.  fetch() rejects with a TypeError on a   *)
(* network failure; otherwise it resolves with a Response of any status.   *)
(* The body, read by response.json(), is JSON text of some value, or text  *)
(* JSON.parse refuses, or a stream that breaks while it is read.           *)
(***************************************************************************)
FetchErrors == { [name |-> "TypeError", message |-> "Failed to fetch"] }
Statuses == {200, 500}

JsonBody(v) == [kind |-> "json", value |-> v]
MalformedBody == [kind |-> "malformed"]
BrokenBody == [kind |-> "broken"]
NoBody == [kind |-> "none"]
NoError == [name |-> "", message |-> ""]

\* The values tried at the end of the reply path (Undefined: no content key).
ContentValues ==
    { Str("Hello"), Str(" Hi "), Str(""), Num(7), Null, Undefined }

WithContent(c) ==
    IF c = Undefined THEN Obj(NoProps) ELSE Obj([content |-> c])

DeepseekData ==
    { Null, Obj(NoProps),
      Obj([choices |-> Arr(<<>>)]),
      Obj([choices |-> Arr(<<Obj(NoProps)>>)]) }
    \cup { Obj([choices |-> Arr(<<Obj([message |-> WithContent(c)])>>)]) :
             c \in ContentValues }

CozeData ==
    { Null, Obj(NoProps),
      Obj([messages |-> Arr(<<>>)]) }
    \cup { Obj([messages |-> Arr(<<WithContent(c)>>)]) :
             c \in ContentValues \cup {Str("\\u4F60\\u597D")} }

Bodies(data) == {MalformedBody, BrokenBody} \cup {JsonBody(v) : v \in data}

(***************************************************************************)
(* The steps of the handler.                                               *)
(***************************************************************************)

RECURSIVE TrimLeft(_)
TrimLeft(s) ==
    IF Len(s) > 0 /\ SubSeq(s, 1, 1) = " " THEN TrimLeft(SubSeq(s, 2, Len(s))) ELSE s
RECURSIVE TrimRight(_)
TrimRight(s) ==
    IF Len(s) > 0 /\ SubSeq(s, Len(s), Len(s)) = " "
    THEN TrimRight(SubSeq(s, 1, Len(s) - 1)) ELSE s

\* Variants of the setter: one trims the text, one appends to the text
\* already shown, one lets a reply replace nothing but the placeholder.
SetTextContentTrimmed(prev, v) ==
    IF v.t \in {"undefined", "null"} THEN "" ELSE TrimLeft(TrimRight(JsToString(v)))
SetTextContentAppended(prev, v) ==
    prev \o (IF v.t \in {"undefined", "null"} THEN "" ELSE JsToString(v))
SetTextContentIfLoading(prev, v) ==
    IF v = Str("thinking...") \/ prev = "thinking..."
    THEN (IF v.t \in {"undefined", "null"} THEN "" ELSE JsToString(v))
    ELSE prev

\* The textContent setter: a nullable DOMString attribute, so null and
\* undefined become the empty string and anything else its ToString; the
\* element's previous text is replaced.
SetTextContent(prev, v) ==
    IF v.t \in {"undefined", "null"} THEN "" ELSE JsToString(v)

\* A variant that sends the request twice.
FetchCallTwice(net, endpoint) ==
    net \o << [url |-> endpoint, method |-> "POST"],
              [url |-> endpoint, method |-> "POST"] >>

\* fetch(endpoint, {method: 'POST', headers, body}): one request goes out.
FetchCall(net, endpoint) ==
    Append(net, [url |-> endpoint, method |-> "POST"])

\* A variant that refuses a response whose status is not 2xx.
ResponseJsonIfOk(response) ==
    IF response.status < 200 \/ response.status > 299
    THEN Throw("Error", "HTTP " \o ToString(response.status))
    ELSE CASE response.body.kind = "json" -> Normal(response.body.value)
           [] response.body.kind = "malformed" ->
                 Throw("SyntaxError", "Unexpected token '<', \"<html>\" is not valid JSON")
           [] OTHER -> Throw("TypeError", "network error")

\* response.json(): reads the body and parses it; the status plays no part.
ResponseJson(response) ==
    CASE response.body.kind = "json" -> Normal(response.body.value)
      [] response.body.kind = "malformed" ->
            Throw("SyntaxError", "Unexpected token '<', \"<html>\" is not valid JSON")
      [] OTHER -> Throw("TypeError", "network error")

\* data.choices[0].message.content
DeepseekReadReply(data) ==
    LET a == GetMember(data, "choices") IN
    IF ~a.ok THEN a ELSE
    LET b == GetIndex(a.v, 0) IN
    IF ~b.ok THEN b ELSE
    LET c == GetMember(b.v, "message") IN
    IF ~c.ok THEN c ELSE GetMember(c.v, "content")

\* data.messages[0].content
CozeReadReply(data) ==
    LET a == GetMember(data, "messages") IN
    IF ~a.ok THEN a ELSE
    LET b == GetIndex(a.v, 0) IN
    IF ~b.ok THEN b ELSE GetMember(b.v, "content")

\* A variant with the prefix in English.
CatchTextEnglish(error) == "request failed: " \o error.message

\* '...: ' + error.message
CatchText(error) == ErrorPrefix \o error.message

\* A variant that rethrows instead of rendering.
CatchBlockRethrow(prev, error) ==
    [text |-> prev, rhs |-> Undefined, via |-> "catch", writes |-> 0,
     escaped |-> TRUE]

\* catch (error) { replyElement.textContent = ... }
CatchBlock(prev, error) ==
    [text |-> SetTextContent(prev, Str(CatchText(error))),
     rhs |-> Str(CatchText(error)), via |-> "catch", writes |-> 1,
     escaped |-> FALSE]

\* The end of the try block: the assignment of the reply, or the jump to
\* the catch block when an awaited promise rejected or the read threw.
Finish(prev, r) ==
    IF r.ok
    THEN [text |-> SetTextContent(prev, r.v), rhs |-> r.v, via |-> "try",
          writes |-> 1, escaped |-> FALSE]
    ELSE CatchBlock(prev, r.e)

Outstanding == {i \in DOMAIN reqs : reqs[i].pc # "done"}

NewRequest(shown) ==
    [pc |-> "fetch", rejected |-> FALSE, error |-> NoError, status |-> 0,
     body |-> NoBody, via |-> "none", writes |-> 0, rhs |-> Undefined,
     wrote |-> "", atClick |-> shown, overlap |-> Outstanding # {}]

\* The handler's run from its end of an await to its return.
Complete(i, r, extra) ==
    \E f \in {Finish(replyText, r)} :
        /\ replyText' = f.text
        /\ reqs' = [reqs EXCEPT ![i] =
                      [extra EXCEPT !.pc = "done", !.via = f.via,
                                    !.writes = @ + f.writes, !.rhs = f.rhs,
                                    !.wrote = f.text]]
        /\ lastResolved' = i
        /\ unhandled' = IF f.escaped THEN unhandled \cup {i} ELSE unhandled

\* The click: the placeholder, then the request, up to the first await.
Click(endpoint) ==
    /\ clicks < MaxClicks
    /\ clicks' = clicks + 1
    /\ replyText' = SetTextContent(replyText, Str(LoadingText))
    /\ network' = FetchCall(network, endpoint)
    /\ reqs' = (clicks + 1 :> NewRequest(replyText')) @@
                [k \in DOMAIN reqs |->
                    IF reqs[k].pc # "done" THEN [reqs[k] EXCEPT !.overlap = TRUE]
                                           ELSE reqs[k]]
    /\ overlapped' = (overlapped \/ Outstanding # {})
    /\ UNCHANGED <<page, lastResolved, unhandled>>

\* await fetch(...) rejects: the catch block runs.
FetchRejected(i) ==
    /\ i \in DOMAIN reqs /\ reqs[i].pc = "fetch"
    /\ \E e \in FetchErrors :
         Complete(i, [ok |-> FALSE, e |-> e],
                  [reqs[i] EXCEPT !.rejected = TRUE, !.error = e])
    /\ UNCHANGED <<page, clicks, network, overlapped>>

\* await fetch(...) resolves, with the status line and the headers of the
\* response: response.json() is called and awaited.
FetchResolved(i) ==
    /\ i \in DOMAIN reqs /\ reqs[i].pc = "fetch"
    /\ \E st \in Statuses :
         reqs' = [reqs EXCEPT ![i].pc = "json", ![i].status = st]
    /\ UNCHANGED <<page, replyText, clicks, network, lastResolved, unhandled,
                   overlapped>>

\* const data = await response.json(); followed by the read of the reply:
\* the value to assign, or what was thrown on the way.
DeepseekTryTail(response) ==
    LET j == ResponseJson(response) IN
    IF j.ok THEN DeepseekReadReply(j.v) ELSE j

CozeTryTail(response) ==
    LET j == ResponseJson(response) IN
    IF j.ok THEN CozeReadReply(j.v) ELSE j

\* await response.json() settles once the body b has arrived or broken
\* off: the reply is read and rendered, or the rejection or the TypeError
\* of the read reaches the catch block.
JsonSettled(i, b, r) ==
    /\ Complete(i, r, [reqs[i] EXCEPT !.body = b])
    /\ UNCHANGED <<page, clicks, network, overlapped>>

DeepseekClick == page = "deepseek" /\ Click(DeepseekEndpoint)
DeepseekFetchRejected(i) == page = "deepseek" /\ FetchRejected(i)
DeepseekFetchResolved(i) == page = "deepseek" /\ FetchResolved(i)
DeepseekJsonSettled(i) ==
    /\ page = "deepseek" /\ i \in DOMAIN reqs /\ reqs[i].pc = "json"
    /\ \E b \in Bodies(DeepseekData) :
         \E r \in {DeepseekTryTail([reqs[i] EXCEPT !.body = b])} : JsonSettled(i, b, r)

CozeClick == page = "coze" /\ Click(CozeEndpoint)
CozeFetchRejected(i) == page = "coze" /\ FetchRejected(i)
CozeFetchResolved(i) == page = "coze" /\ FetchResolved(i)
CozeJsonSettled(i) ==
    /\ page = "coze" /\ i \in DOMAIN reqs /\ reqs[i].pc = "json"
    /\ \E b \in Bodies(CozeData) :
         \E r \in {CozeTryTail([reqs[i] EXCEPT !.body = b])} : JsonSettled(i, b, r)

\* DOMContentLoaded has fired and the listener is registered; the text the
\* page's markup gives #reply is not the script's to choose.
InitialTexts == {"", "reply"}

Init ==
    /\ page \in {"deepseek", "coze"}
    /\ replyText \in InitialTexts
    /\ clicks = 0
    /\ network = <<>>
    /\ reqs = <<>>
    /\ lastResolved = 0
    /\ unhandled = {}
    /\ overlapped = FALSE

Next ==
    \/ DeepseekClick
    \/ \E i \in 1..MaxClicks : DeepseekFetchRejected(i)
    \/ \E i \in 1..MaxClicks : DeepseekFetchResolved(i)
    \/ \E i \in 1..MaxClicks : DeepseekJsonSettled(i)
    \/ CozeClick
    \/ \E i \in 1..MaxClicks : CozeFetchRejected(i)
    \/ \E i \in 1..MaxClicks : CozeFetchResolved(i)
    \/ \E i \in 1..MaxClicks : CozeJsonSettled(i)

Spec == Init /\ [][Next]_vars


\* A step in which some promise of some handler settles and the handler runs
\* on to its next await or to its end.
Settle ==
    \E i \in 1..MaxClicks :
        \/ DeepseekFetchRejected(i) \/ DeepseekFetchResolved(i)
        \/ DeepseekJsonSettled(i)
        \/ CozeFetchRejected(i) \/ CozeFetchResolved(i)
        \/ CozeJsonSettled(i)

\* The event loop runs the continuation of a settled promise, and the
\* claims about progress assume a transport that settles every request:
\* while a request is outstanding, a settling step eventually happens.
FairSpec == Spec /\ WF_vars(Settle)

(***************************************************************************)
(* The vocabulary of the properties.                                       *)
(***************************************************************************)
Done(i) == i \in DOMAIN reqs /\ reqs[i].pc = "done"
Decoded(i) == Done(i) /\ ~reqs[i].rejected /\ reqs[i].body.kind = "json"
Absent == [t |-> "absent"]

\* What the decoded body holds at the documented reply path
\* (choices[0].message.content, or messages[0].content), or Absent.
DocumentedContent(d) ==
    LET key == IF page = "deepseek" THEN "choices" ELSE "messages"
        hasFirst == /\ d.t = "object"
                    /\ key \in DOMAIN d.props
                    /\ d.props[key].t = "array"
                    /\ Len(d.props[key].items) > 0
        first == d.props[key].items[1]
        holder == IF page # "deepseek" THEN first
                  ELSE IF first.t = "object" /\ "message" \in DOMAIN first.props
                       THEN first.props["message"] ELSE Absent
    IN  IF hasFirst /\ holder.t = "object" /\ "content" \in DOMAIN holder.props
        THEN holder.props["content"] ELSE Absent

Content(i) == DocumentedContent(reqs[i].body.value)
SameOutcome(i, j) ==
    /\ reqs[i].rejected = reqs[j].rejected
    /\ reqs[i].error = reqs[j].error
    /\ reqs[i].status = reqs[j].status
    /\ reqs[i].body = reqs[j].body
Endpoint == IF page = "deepseek" THEN "https://api.deepseek.com/chat/completions"
                                 ELSE "https://api.coze.cn/open_api/v2/chat"

\* C1: whenever a request completes with a decoded body that has a string
\* at the documented reply path, the text the handler writes to the reply
\* element is exactly that string, through the reply branch.
C1_ReplyRenderedExactly ==
    \A i \in DOMAIN reqs :
        (Decoded(i) /\ Content(i).t = "string") =>
            (reqs[i].via = "try" /\ reqs[i].wrote = Content(i).s)

C1_Witness ==
    \E i \in DOMAIN reqs :
        /\ Decoded(i) /\ Content(i) = Str(" Hi ")
        /\ reqs[i].wrote = " Hi " /\ replyText = " Hi "

\* C2: when fetch rejects or the body cannot be decoded, the catch block
\* renders the error prefix followed by the underlying error's message,
\* whatever the kind of failure, and no further request goes out.
C2_FailureRendered ==
    \A i \in DOMAIN reqs :
        /\ (Done(i) /\ reqs[i].rejected) =>
              /\ reqs[i].via = "catch"
              /\ reqs[i].wrote = "\\u8BF7\\u6C42\\u51FA\\u9519: " \o reqs[i].error.message
        /\ (Done(i) /\ ~reqs[i].rejected /\ reqs[i].body.kind # "json") =>
              /\ reqs[i].via = "catch"
              /\ reqs[i].wrote =
                   "\\u8BF7\\u6C42\\u51FA\\u9519: " \o ResponseJson(reqs[i]).e.message
        /\ Done(i) => Len(network) = clicks

C2_Witness ==
    \E i, j \in DOMAIN reqs :
        /\ Done(i) /\ reqs[i].rejected
        /\ reqs[i].wrote = "\\u8BF7\\u6C42\\u51FA\\u9519: Failed to fetch"
        /\ Done(j) /\ ~reqs[j].rejected /\ reqs[j].body.kind = "malformed"
        /\ reqs[j].via = "catch"

\* C3 (as claimed): every completed click ended either in a non-empty
\* string taken exactly from the documented reply path or in an error, and
\* no fault escaped the handler.
C3_AsClaimed ==
    /\ unhandled = {}
    /\ \A i \in DOMAIN reqs :
          Done(i) =>
             \/ reqs[i].via = "catch"
             \/ /\ reqs[i].via = "try"
                /\ Decoded(i) /\ Content(i).t = "string"
                /\ reqs[i].wrote = Content(i).s
                /\ reqs[i].wrote # ""

\* C4 (as claimed): a decoded body in which the documented reply path is
\* absent at some level ends in the error outcome.
C4_AsClaimed ==
    \A i \in DOMAIN reqs :
        (Decoded(i) /\ Content(i) = Absent) => reqs[i].via = "catch"

\* C5: the requests sent are exactly one POST to the page's endpoint per
\* click, whatever has resolved, failed or is still outstanding.
C5_OneRequestPerClick ==
    /\ Len(network) = clicks
    /\ DOMAIN reqs = 1..clicks
    /\ \A k \in DOMAIN network :
          network[k] = [url |-> Endpoint, method |-> "POST"]

C5_Witness ==
    /\ clicks = 2 /\ Len(network) = 2 /\ overlapped
    /\ Done(1) /\ reqs[1].via = "catch"
    /\ ~Done(2)

\* C6: the text a click finally renders depends only on the transport
\* outcome of its own request: two completed clicks with the same outcome
\* rendered the same text through the same branch.
C6_ClicksIndependent ==
    \A i, j \in DOMAIN reqs :
        (Done(i) /\ Done(j) /\ SameOutcome(i, j)) =>
            (reqs[i].wrote = reqs[j].wrote /\ reqs[i].via = reqs[j].via)

C6_Witness ==
    /\ Done(1) /\ Done(2) /\ ~overlapped /\ SameOutcome(1, 2)
    /\ reqs[1].via = "catch" /\ reqs[2].via = "catch"
    /\ reqs[2].wrote = reqs[1].wrote /\ replyText = reqs[2].wrote

\* C7: a click shows the placeholder at once; a click that no other click
\* overlaps sees the placeholder replaced by its one final write; and
\* every outstanding request ends with exactly one final write, through the
\* reply branch or the catch block.
C7_PlaceholderThenOneWrite ==
    /\ [](\A i \in DOMAIN reqs :
            /\ reqs[i].atClick = "thinking..."
            /\ Done(i) => (reqs[i].writes = 1 /\ reqs[i].via \in {"try", "catch"}))
    /\ [][\A i \in DOMAIN reqs :
            (~Done(i) /\ Done(i)' /\ ~reqs[i].overlap) =>
                (replyText = "thinking..." /\ replyText' = reqs'[i].wrote)]_vars
    /\ \A i \in 1..MaxClicks :
          (i \in DOMAIN reqs /\ ~Done(i)) ~> (Done(i) /\ reqs[i].writes = 1)

C7_Witness ==
    /\ ~overlapped /\ Done(1) /\ Done(2)
    /\ reqs[1].via = "try" /\ reqs[1].writes = 1
    /\ reqs[2].via = "catch" /\ reqs[2].writes = 1
    /\ reqs[2].atClick = "thinking..." /\ replyText = reqs[2].wrote

\* The text the setter shows for a value (for the properties).
Shown(v) == IF v.t \in {"undefined", "null"} THEN "" ELSE JsToString(v)

\* C8: a click is possible while a request is outstanding, and once every
\* request has resolved the element shows the outcome of the request that
\* resolved last, whatever the order of the clicks.
C8_LastResolvedWins ==
    /\ (Outstanding # {} /\ clicks < MaxClicks) => ENABLED (DeepseekClick \/ CozeClick)
    /\ (Outstanding = {} /\ lastResolved # 0) =>
          replyText = Shown(reqs[lastResolved].rhs)

C8_Witness ==
    /\ Outstanding = {} /\ clicks >= 2 /\ lastResolved = 1
    /\ reqs[1].overlap /\ reqs[2].overlap
    /\ reqs[1].wrote = "Hello" /\ reqs[2].wrote # "Hello"
    /\ replyText = "Hello"

\* C9: the rendered outcome does not depend on the HTTP status: two
\* completed requests whose responses carry the same body rendered the same
\* text, and a non-2xx response with a string at the reply path is
\* rendered as a reply.
C9_StatusIgnored ==
    \A i, j \in DOMAIN reqs :
        /\ (Done(i) /\ Done(j) /\ ~reqs[i].rejected /\ ~reqs[j].rejected
              /\ reqs[i].body = reqs[j].body) =>
              (reqs[i].wrote = reqs[j].wrote /\ reqs[i].via = reqs[j].via)
        /\ (Decoded(i) /\ reqs[i].status = 500 /\ Content(i).t = "string") =>
              (reqs[i].via = "try" /\ reqs[i].wrote = Content(i).s)

C9_Witness ==
    \E i, j \in DOMAIN reqs :
        /\ Decoded(i) /\ Decoded(j) /\ reqs[i].body = reqs[j].body
        /\ reqs[i].status = 200 /\ reqs[j].status = 500
        /\ Content(j) = Str("Hello") /\ reqs[j].wrote = "Hello"

\* C10: as long as no click has happened while a request was outstanding,
\* the element shows the placeholder whenever a request is outstanding.
C10_PlaceholderWhileOutstanding ==
    (~overlapped /\ Outstanding # {}) => replyText = "thinking..."

C10_Witness ==
    /\ ~overlapped /\ clicks = 2 /\ Done(1) /\ reqs[1].wrote = "Hello"
    /\ reqs[2].pc = "json" /\ replyText = "thinking..."

====
